---- MODULE Spec2Model ----
(***************************************************************************)
(* Model of the financial projection engine and of the application state   *)
(* around it (App.tsx, SimulationControl.tsx, FinancialCharts.tsx).        *)
(*                                                                         *)
(* Numbers.  A JavaScript number is modelled as a record [k, v]:           *)
(*   k = "num"  : the finite value v, a fixed-point integer                *)
(*   k = "nan"  : NaN                                                      *)
(*   k = "null" : the JSON null that JSON.stringify writes for NaN and     *)
(*                that arithmetic converts to 0                            *)
(* Money is held in cents, rates in hundredths of a percent                *)
(* (RateScale); a product with a rate is rounded to the nearest cent.      *)
(*                                                                         *)
(* Objects.  Arrays and their elements live in `heap`, a function from     *)
(* references to records, so that two states sharing an array or an        *)
(* element is something the model can express and an in-place update is    *)
(* seen through every reference.  After each step the unreachable objects  *)
(* are dropped and the references renumbered in traversal order.           *)
(*                                                                         *)
(* Chat.  `chat` is the state of the AIAssistant component: its useState   *)
(* values and the sendMessage calls that have not settled yet.             *)
(***************************************************************************)
EXTENDS Integers, Sequences, FiniteSets, TLC

VARIABLES currentState, simState, heap, frame, lastCall, chat

vars == <<currentState, simState, heap, frame, lastCall, chat>>

Null == [t |-> "null"]

(***************************************************************************)
(* Units and bounds                                                        *)
(***************************************************************************)
RateScale == 100
MonthsPerYear == 12
\* rate/100/12 as a divisor of (value * rate in hundredths of a percent)
MonthlyRateDiv == RateScale * 100 * MonthsPerYear
PercentDiv == RateScale * 100

\* the longest horizon a projection is asked for
MaxHorizon == 3
\* loans and investments of the states the projection is tried on
MaxLoans == 2
MaxInvestments == 2
\* transactions, cards, loans and investments one state of the application holds
MaxEntities == 13

(***************************************************************************)
(* Numbers                                                                 *)
(***************************************************************************)
N(x) == [k |-> "num", v |-> x]
NaN == [k |-> "nan", v |-> 0]
JsonNull == [k |-> "null", v |-> 0]

IsNaN(a) == a.k = "nan"
IsNum(a) == a.k = "num"
\* ToNumber: null converts to 0
Val(a) == IF a.k = "null" THEN 0 ELSE a.v

Add(a, b) == IF IsNaN(a) \/ IsNaN(b) THEN NaN ELSE N(Val(a) + Val(b))
Sub(a, b) == IF IsNaN(a) \/ IsNaN(b) THEN NaN ELSE N(Val(a) - Val(b))
\* comparisons with NaN are false
Gt0(a) == ~IsNaN(a) /\ Val(a) > 0
Lt0(a) == ~IsNaN(a) /\ Val(a) < 0
Gt(a, b) == ~IsNaN(a) /\ ~IsNaN(b) /\ Val(a) > Val(b)
\* OrElse as a ?? b: only a missing value falls back
OrElse_Nullish(a, b) == IF a.k = "null" THEN b ELSE a

\* a || b : NaN, 0 and null are falsy
OrElse(a, b) == IF IsNaN(a) \/ Val(a) = 0 THEN b ELSE a

\* nearest integer to x / d, d # 0
RoundDiv(x, d) == IF d > 0 THEN (2 * x + d) \div (2 * d)
                  ELSE (2 * (0 - x) + (0 - d)) \div (2 * (0 - d))

\* a * (rate / 100 / 12)
MulMonthlyRate(a, rate) == IF IsNaN(a) THEN NaN
                           ELSE N(RoundDiv(Val(a) * rate, MonthlyRateDiv))
\* a * (rate / 100)
MulPercent(a, rate) == IF IsNaN(a) THEN NaN
                       ELSE N(RoundDiv(Val(a) * rate, PercentDiv))

\* JSON.stringify writes NaN as null; JSON.parse reads it back as null
JsonNum(a) == IF IsNaN(a) THEN JsonNull ELSE a

(***************************************************************************)
(* Heap                                                                    *)
(***************************************************************************)
Arr(refs) == [t |-> "arr", e |-> refs]

Elems(h, a) == h[a].e

\* the elements of array a, by value
Vals(h, a) == [k \in 1..Len(Elems(h, a)) |-> h[Elems(h, a)[k]]]

\* a FinancialState with its arrays and elements by value
DeepValue(h, st) ==
    [cashBalance |-> st.cashBalance,
     monthlyIncome |-> st.monthlyIncome,
     transactions |-> Vals(h, st.transactions),
     creditCards |-> Vals(h, st.creditCards),
     loans |-> Vals(h, st.loans),
     investments |-> Vals(h, st.investments)]

\* the references in use are 1..n: the highest one is their number
MaxRef(h) == Cardinality(DOMAIN h)

\* h extended with the objects objs at fresh references base+1 ..
Alloc(h, base, objs) ==
    [r \in (DOMAIN h) \cup ((base + 1)..(base + Len(objs))) |->
        IF r \in DOMAIN h THEN h[r] ELSE objs[r - base]]

RefsFrom(base, n) == [k \in 1..n |-> base + k]

\* a new array holding new objects objs; the array is at base+1
AllocArray(h, base, objs) ==
    Alloc(Alloc(h, base, <<Arr(RefsFrom(base + 1, Len(objs)))>>), base + 1, objs)

\* the four arrays of a state and their elements, in traversal order
StateRefs(h, st) ==
    IF st = Null THEN <<>>
    ELSE <<st.transactions>> \o Elems(h, st.transactions)
         \o <<st.creditCards>> \o Elems(h, st.creditCards)
         \o <<st.loans>> \o Elems(h, st.loans)
         \o <<st.investments>> \o Elems(h, st.investments)

FrameRefs(h, fr) ==
    IF fr = Null THEN <<>>
    ELSE <<fr.activeLoans>> \o Elems(h, fr.activeLoans)
         \o <<fr.activeInvestments>> \o Elems(h, fr.activeInvestments)

RECURSIVE Dedup(_, _)
Dedup(s, seen) ==
    IF s = <<>> THEN <<>>
    ELSE IF Head(s) \in seen THEN Dedup(Tail(s), seen)
         ELSE <<Head(s)>> \o Dedup(Tail(s), seen \cup {Head(s)})

\* the live references, each once, in traversal order
Live(h, cur, sim, fr) ==
    Dedup(StateRefs(h, cur) \o StateRefs(h, sim) \o FrameRefs(h, fr), {})

Index(order, r) == CHOOSE k \in 1..Len(order) : order[k] = r

RenameObj(order, o) ==
    IF o.t = "arr" THEN Arr([k \in 1..Len(o.e) |-> Index(order, o.e[k])])
    ELSE o

RenameState(order, st) ==
    IF st = Null THEN Null
    ELSE [st EXCEPT !.transactions = Index(order, @),
                    !.creditCards = Index(order, @),
                    !.loans = Index(order, @),
                    !.investments = Index(order, @)]

RenameFrame(order, fr) ==
    IF fr = Null THEN Null
    ELSE [fr EXCEPT !.state = RenameState(order, @),
                    !.activeLoans = Index(order, @),
                    !.activeInvestments = Index(order, @)]

\* the variables after a step, with the live objects renumbered as in order
CommitOrder(order, h, cur, sim, fr) ==
    /\ heap' = [r \in 1..Len(order) |-> RenameObj(order, h[order[r]])]
    /\ currentState' = RenameState(order, cur)
    /\ simState' = RenameState(order, sim)
    /\ frame' = RenameFrame(order, fr)

\* the step's result: unreachable objects dropped, references renumbered
Commit(h, cur, sim, fr) == CommitOrder(Live(h, cur, sim, fr), h, cur, sim, fr)

(***************************************************************************)
(* Domain objects (types.ts)                                               *)
(***************************************************************************)
Transaction(amount, type) == [t |-> "tx", amount |-> amount, type |-> type]

CreditCard(cashbackRate, annualFee, interestRate) ==
    [t |-> "card", cashbackRate |-> cashbackRate, annualFee |-> annualFee,
     interestRate |-> interestRate]

Loan(principal, remainingBalance, interestRate, monthlyPayment, termMonths) ==
    [t |-> "loan", principal |-> principal,
     remainingBalance |-> remainingBalance, interestRate |-> interestRate,
     monthlyPayment |-> monthlyPayment, termMonths |-> termMonths]

Investment(balance, annualReturnRate, monthlyContribution) ==
    [t |-> "inv", balance |-> balance, annualReturnRate |-> annualReturnRate,
     monthlyContribution |-> monthlyContribution]

FinancialState(cashBalance, monthlyIncome, transactions, creditCards, loans, investments) ==
    [t |-> "state", cashBalance |-> cashBalance, monthlyIncome |-> monthlyIncome,
     transactions |-> transactions, creditCards |-> creditCards,
     loans |-> loans, investments |-> investments]

\* a state built from values: its four arrays and their elements are new objects
NewState(h, cash, income, txs, cards, loans, invs) ==
    LET b0 == MaxRef(h)
        h1 == AllocArray(h, b0, txs)
        b1 == b0 + 1 + Len(txs)
        h2 == AllocArray(h1, b1, cards)
        b2 == b1 + 1 + Len(cards)
        h3 == AllocArray(h2, b2, loans)
        b3 == b2 + 1 + Len(loans)
        h4 == AllocArray(h3, b3, invs)
    IN [h |-> h4,
        st |-> FinancialState(cash, income, b0 + 1, b1 + 1, b2 + 1, b3 + 1)]

EmptyHeap == [r \in {} |-> Null]

INITIAL_STATE ==
    NewState(EmptyHeap, N(1540000), N(620000),
        << Transaction(N(310000), "income"),
           Transaction(N(14520), "expense"),
           Transaction(N(4500), "expense"),
           Transaction(N(1599), "expense"),
           Transaction(N(12050), "expense"),
           Transaction(N(310000), "income"),
           Transaction(N(8500), "expense"),
           Transaction(N(6599), "expense") >>,
        << CreditCard(150, N(9500), 1824) >>,
        << Loan(N(2500000), N(1840000), 450, N(26000), 120) >>,
        << Investment(N(1250000), 650, N(20000)) >>)

(***************************************************************************)
(* generateProjectionData (FinancialCharts.tsx)                            *)
(***************************************************************************)
RECURSIVE SumAmounts(_, _, _)
\* transactions.filter(t => t.type === type).reduce((acc, t) => acc + t.amount, 0)
SumAmounts(txs, type, acc) ==
    IF txs = <<>> THEN acc
    ELSE SumAmounts(Tail(txs), type,
                    IF Head(txs).type = type THEN Add(acc, Head(txs).amount) ELSE acc)

RECURSIVE SumRemaining(_, _)
SumRemaining(loans, acc) ==
    IF loans = <<>> THEN acc
    ELSE SumRemaining(Tail(loans), Add(acc, Head(loans).remainingBalance))

RECURSIVE SumBalance(_, _)
SumBalance(invs, acc) ==
    IF invs = <<>> THEN acc
    ELSE SumBalance(Tail(invs), Add(acc, Head(invs).balance))

RECURSIVE MaxCashbackRate_Last(_, _)
\* MaxCashbackRate as the rate of the last card
MaxCashbackRate_Last(cards, max) ==
    IF cards = <<>> THEN max
    ELSE MaxCashbackRate_Last(Tail(cards), Head(cards).cashbackRate)

RECURSIVE MaxCashbackRate(_, _)
\* creditCards.reduce((max, card) => Math.max(max, card.cashbackRate), 0)
MaxCashbackRate(cards, max) ==
    IF cards = <<>> THEN max
    ELSE MaxCashbackRate(Tail(cards),
                         IF Head(cards).cashbackRate > max THEN Head(cards).cashbackRate ELSE max)

MonthLabel(i) == <<"M", i>>

\* LoanStep with the interest taken on the balance left after the payment
LoanStep_InterestAfterPayment(loan) ==
    LET paid == Sub(loan.remainingBalance, loan.monthlyPayment)
        interest == MulMonthlyRate(paid, loan.interestRate)
        reduced == Add(paid, interest)
    IN [loan EXCEPT !.remainingBalance = IF Lt0(reduced) THEN N(0) ELSE reduced]

\* LoanStep without the clamp of line 65
LoanStep_NoClamp(loan) ==
    LET interest == MulMonthlyRate(loan.remainingBalance, loan.interestRate)
        principalPayment == Sub(loan.monthlyPayment, interest)
    IN [loan EXCEPT !.remainingBalance = Sub(loan.remainingBalance, principalPayment)]

\* the body of activeLoans.forEach for one loan object
LoanStep(loan) ==
    LET interest == MulMonthlyRate(loan.remainingBalance, loan.interestRate)
        principalPayment == Sub(loan.monthlyPayment, interest)
        reduced == Sub(loan.remainingBalance, principalPayment)
    IN [loan EXCEPT !.remainingBalance = IF Lt0(reduced) THEN N(0) ELSE reduced]

RECURSIVE LoanPass_NoGuard(_, _, _)
\* LoanPass without the test remainingBalance > 0
LoanPass_NoGuard(h, cash, refs) ==
    IF refs = <<>> THEN [h |-> h, cash |-> cash]
    ELSE LET r == Head(refs) IN
         LoanPass_NoGuard([h EXCEPT ![r] = LoanStep(h[r])],
                          Sub(cash, h[r].monthlyPayment), Tail(refs))

RECURSIVE LoanPass(_, _, _)
\* activeLoans.forEach(...): the heap and the cash after visiting refs in order
LoanPass(h, cash, refs) ==
    IF refs = <<>> THEN [h |-> h, cash |-> cash]
    ELSE LET r == Head(refs) IN
         IF Gt0(h[r].remainingBalance)
         THEN LoanPass([h EXCEPT ![r] = LoanStep(h[r])],
                       Sub(cash, h[r].monthlyPayment), Tail(refs))
         ELSE LoanPass(h, cash, Tail(refs))

\* InvestmentStep with the growth taken on the balance before the contribution
InvestmentStep_GrowthBeforeContribution(inv) ==
    [inv EXCEPT !.balance =
        Add(Add(inv.balance, MulMonthlyRate(inv.balance, inv.annualReturnRate)),
            inv.monthlyContribution)]

\* the body of activeInvestments.forEach for one investment object
InvestmentStep(inv) ==
    LET contributed == Add(inv.balance, inv.monthlyContribution)
    IN [inv EXCEPT !.balance =
            Add(contributed, MulMonthlyRate(contributed, inv.annualReturnRate))]

RECURSIVE InvestmentPass(_, _, _)
InvestmentPass(h, cash, refs) ==
    IF refs = <<>> THEN [h |-> h, cash |-> cash]
    ELSE LET r == Head(refs) IN
         InvestmentPass([h EXCEPT ![r] = InvestmentStep(h[r])],
                        Sub(cash, h[r].monthlyContribution), Tail(refs))

\* CloneArray as plain aliasing: the caller's array itself
CloneArray_Alias(h, a) == [h |-> h, ref |-> a]

\* CloneArray as a.map(l => l): a new array of the caller's objects
CloneArray_SameElements(h, a) ==
    [h |-> Alloc(h, MaxRef(h), <<Arr(Elems(h, a))>>), ref |-> MaxRef(h) + 1]

\* state.loans.map(l => ({ ...l })): a new array of new objects with the same fields
CloneArray(h, a) ==
    [h |-> AllocArray(h, MaxRef(h), Vals(h, a)), ref |-> MaxRef(h) + 1]

\* lines 5-28: the copies and the base monthly figures; the frame of the call
\* and the heap holding its copies
EnterProjection(h, st, m) ==
    LET loansCopy == CloneArray(h, st.loans)
        invCopy == CloneArray(loansCopy.h, st.investments)
        txs == Vals(h, st.transactions)
        expenses == SumAmounts(txs, "expense", N(0))
    IN [h |-> invCopy.h,
        fr |-> [pc |-> "loop", state |-> st, months |-> m, i |-> 0,
                currentCash |-> st.cashBalance,
                activeLoans |-> loansCopy.ref,
                activeInvestments |-> invCopy.ref,
                monthlyIncome |-> OrElse(SumAmounts(txs, "income", N(0)), st.monthlyIncome),
                monthlyExpenses |-> expenses,
                estimatedMonthlyCashback |->
                    MulPercent(expenses, MaxCashbackRate(Vals(h, st.creditCards), 0)),
                data |-> <<>>,
                entry |-> DeepValue(h, st)]]

\* MonthRecord with a net worth that leaves the loans out
MonthRecord_NoDebt(h, fr) ==
    LET totalInvestmentValue == SumBalance(Vals(h, fr.activeInvestments), N(0))
    IN [month |-> MonthLabel(fr.i),
        actualSavings |-> fr.currentCash,
        actualNetWorth |-> Add(fr.currentCash, totalInvestmentValue),
        investmentValue |-> totalInvestmentValue]

\* lines 32-40: the record pushed for month i
MonthRecord(h, fr) ==
    LET totalLoanBalance == SumRemaining(Vals(h, fr.activeLoans), N(0))
        totalInvestmentValue == SumBalance(Vals(h, fr.activeInvestments), N(0))
    IN [month |-> MonthLabel(fr.i),
        actualSavings |-> fr.currentCash,
        actualNetWorth |-> Sub(Add(fr.currentCash, totalInvestmentValue), totalLoanBalance),
        investmentValue |-> totalInvestmentValue]

\* lines 69-80, run on the heap and cash the loans left
InvestmentsAfter(afterLoans, refs) == InvestmentPass(afterLoans.h, afterLoans.cash, refs)

\* ApplyFlows without line 48: the cashback is not added
ApplyFlows_NoCashback(h, fr) ==
    LET outflow == Sub(Add(fr.currentCash, fr.monthlyIncome), fr.monthlyExpenses)
    IN InvestmentsAfter(LoanPass(h, outflow, Elems(h, fr.activeLoans)),
                        Elems(h, fr.activeInvestments))

\* lines 44-80: the month's flows applied to the cash and to the copies
ApplyFlows(h, fr) ==
    LET inflow == Add(Add(fr.currentCash, fr.monthlyIncome), fr.estimatedMonthlyCashback)
        outflow == Sub(inflow, fr.monthlyExpenses)
    IN InvestmentsAfter(LoanPass(h, outflow, Elems(h, fr.activeLoans)),
                        Elems(h, fr.activeInvestments))

\* lines 35-81 when i # months: the record pushed, the flows kept, i++
NextMonth(fr, record, after) ==
    [h |-> after.h,
     fr |-> [fr EXCEPT !.data = Append(@, record), !.currentCash = after.cash, !.i = @ + 1]]

\* LoopBody with the break tested before the record is pushed
LoopBody_BreakBeforePush(h, fr) ==
    IF fr.i = fr.months
    THEN [h |-> h, fr |-> [fr EXCEPT !.pc = "ret"]]
    ELSE NextMonth(fr, MonthRecord(h, fr), ApplyFlows(h, fr))

RecordAfter(fr, after) ==
    NextMonth(fr, MonthRecord(after.h, [fr EXCEPT !.currentCash = after.cash]), after)

\* LoopBody with the record taken after the month's flows
LoopBody_RecordAfterFlows(h, fr) ==
    IF fr.i = fr.months
    THEN [h |-> h, fr |-> [fr EXCEPT !.data = Append(fr.data, MonthRecord(h, fr)),
                                     !.pc = "ret"]]
    ELSE RecordAfter(fr, ApplyFlows(h, fr))

\* lines 30-81: one iteration of the loop (i <= months)
LoopBody(h, fr) ==
    IF fr.i = fr.months
    THEN [h |-> h, fr |-> [fr EXCEPT !.data = Append(@, MonthRecord(h, fr)), !.pc = "ret"]]
    ELSE NextMonth(fr, MonthRecord(h, fr), ApplyFlows(h, fr))

RECURSIVE RunLoop(_)
\* the loop run to its end from the heap and frame of e; the data returned
RunLoop(e) ==
    IF e.fr.pc = "ret" \/ e.fr.i > e.fr.months THEN e.fr.data
    ELSE RunLoop(LoopBody(e.h, e.fr))

\* the sequence generateProjectionData(st, m) returns
generateProjectionData(h, st, m) == RunLoop(EnterProjection(h, st, m))

\* a step of the call: its heap and frame become the state's
CommitCall(e) == Commit(e.h, currentState, simState, e.fr)

\* a call generateProjectionData(currentState, m) begins
ProjectStart(m) ==
    /\ frame = Null
    /\ CommitCall(EnterProjection(heap, currentState, m))
    /\ UNCHANGED <<lastCall, chat>>

ProjectMonth ==
    /\ frame # Null
    /\ frame.pc = "loop"
    /\ frame.i <= frame.months
    /\ CommitCall(LoopBody(heap, frame))
    /\ UNCHANGED <<lastCall, chat>>

\* line 30: the loop condition is false on entry
ProjectExit ==
    /\ frame # Null
    /\ frame.pc = "loop"
    /\ frame.i > frame.months
    /\ frame' = [frame EXCEPT !.pc = "ret"]
    /\ UNCHANGED <<heap, currentState, simState, lastCall, chat>>

\* line 83: return data
ProjectReturn ==
    /\ frame # Null
    /\ frame.pc = "ret"
    /\ lastCall' = [months |-> frame.months, data |-> frame.data, entry |-> frame.entry]
    /\ UNCHANGED chat
    /\ Commit(heap, currentState, simState, Null)

(***************************************************************************)
(* Application handlers (App.tsx, SimulationControl.tsx)                   *)
(***************************************************************************)
JsonObj(o) ==
    IF o.t = "tx" THEN [o EXCEPT !.amount = JsonNum(@)]
    ELSE IF o.t = "card" THEN [o EXCEPT !.annualFee = JsonNum(@)]
    ELSE IF o.t = "loan" THEN [o EXCEPT !.principal = JsonNum(@),
                                        !.remainingBalance = JsonNum(@),
                                        !.monthlyPayment = JsonNum(@)]
    ELSE [o EXCEPT !.balance = JsonNum(@), !.monthlyContribution = JsonNum(@)]

JsonVals(h, a) == [k \in 1..Len(Elems(h, a)) |-> JsonObj(h[Elems(h, a)[k]])]

\* DeepCopy as { ...st }: the copy holds the arrays of st
DeepCopy_Shallow(h, st) == [h |-> h, st |-> st]

\* JSON.parse(JSON.stringify(st)): every array and element is a new object
DeepCopy(h, st) ==
    NewState(h, JsonNum(st.cashBalance), JsonNum(st.monthlyIncome),
             JsonVals(h, st.transactions), JsonVals(h, st.creditCards),
             JsonVals(h, st.loans), JsonVals(h, st.investments))

\* [...a, obj]: a new array with the elements of a followed by the new object obj
SpreadAppend(h, a, obj) ==
    LET b == MaxRef(h) IN
    [h |-> Alloc(h, b, <<Arr(Append(Elems(h, a), b + 2)), obj>>), ref |-> b + 1]

\* [obj, ...a]
SpreadPrepend(h, a, obj) ==
    LET b == MaxRef(h) IN
    [h |-> Alloc(h, b, <<Arr(<<b + 2>> \o Elems(h, a)), obj>>), ref |-> b + 1]

\* a.push(obj): the array object itself is extended
Push(h, a, obj) ==
    LET b == MaxRef(h) IN
    [Alloc(h, b, <<obj>>) EXCEPT ![a].e = Append(@, b + 1)]

(***************************************************************************)
(* AIAssistant.tsx: the chat                                               *)
(***************************************************************************)
\* lines 21-24: the useState values of the chat, with the sendMessage calls
\* that are awaited
ChatInitialState ==
    [chatSession |-> Null, messages |-> <<>>, inputText |-> "", isTyping |-> FALSE,
     pending |-> <<>>]

ChatMessage(role, text) == [role |-> role, text |-> text]

\* lines 31-39: the greeting
Greeting(simulated) ==
    ChatMessage("model", IF simulated THEN "ready to discuss your simulated scenario"
                                      ELSE "analyzed your current finances")

\* lines 28-40: the effect of a change of `current` or `simulated`: a new
\* session, a message list holding the greeting.  The calls awaited were made
\* on a session that is no longer the current one.
useEffectChatReset(c, simulated) ==
    [c EXCEPT !.chatSession = [t |-> "chat"],
              !.messages = <<Greeting(simulated)>>,
              !.pending = [k \in 1..Len(c.pending) |->
                              [c.pending[k] EXCEPT !.toCurrentSession = FALSE]]]

\* what the text field of the chat can hold
InputTexts == {"", " ", "Can I afford it?"}

\* String.prototype.trim
Trim(text) == IF text = " " THEN "" ELSE text

\* the most messages shown plus replies awaited
MaxMessages == 5

\* lines 54-63: handleSendMessage up to its await
handleSendMessage(c) ==
    IF Trim(c.inputText) = "" \/ c.chatSession = Null
    THEN c
    ELSE [c EXCEPT !.messages = Append(@, ChatMessage("user", c.inputText)),
                   !.inputText = "",
                   !.isTyping = TRUE,
                   !.pending = Append(@, [toCurrentSession |-> TRUE])]

\* a further question and its reply fit in the bound
RoomForMessage(c) == Len(c.messages) + Len(c.pending) + 2 <= MaxMessages

\* line 219: onChange of the text field
setInputText(text) ==
    /\ chat' = [chat EXCEPT !.inputText = text]
    /\ UNCHANGED <<heap, currentState, simState, frame, lastCall>>

\* line 226: the send button is disabled
SendDisabled(c) == Trim(c.inputText) = "" \/ c.isTyping

\* lines 224-226: a click on the send button
onClickSend ==
    /\ ~SendDisabled(chat)
    /\ RoomForMessage(chat)
    /\ chat' = handleSendMessage(chat)
    /\ UNCHANGED <<heap, currentState, simState, frame, lastCall>>

\* line 220: the Enter key in the text field
onKeyDownEnter ==
    /\ RoomForMessage(chat)
    /\ chat' = handleSendMessage(chat)
    /\ UNCHANGED <<heap, currentState, simState, frame, lastCall>>

\* how an awaited sendMessage call settles: with a text, with an empty text,
\* or rejected
Outcomes == {"text", "empty", "rejected"}

\* lines 64 and 68: the text of the model message
ReplyText(outcome) ==
    CASE outcome = "text" -> "reply"
      [] outcome = "empty" -> "I'm having trouble connecting right now."
      [] OTHER -> "Sorry, I encountered an error. Please check your API key."

RemoveAt(seq, k) == SubSeq(seq, 1, k - 1) \o SubSeq(seq, k + 1, Len(seq))

\* lines 63-71: handleSendMessage after its await, for the k-th awaited call
sendMessageSettles(k, outcome) ==
    /\ k \in 1..Len(chat.pending)
    /\ chat' = [chat EXCEPT !.messages = Append(@, ChatMessage("model", ReplyText(outcome))),
                            !.isTyping = FALSE,
                            !.pending = RemoveAt(@, k)]
    /\ UNCHANGED <<heap, currentState, simState, frame, lastCall>>

isSimulating == simState # Null

\* setSimState(c.st), where c is a state with the heap it was built in
CommitSim(c) == Commit(c.h, currentState, c.st, Null)

\* c.st.investments.push(obj)
PushInvestment(c, obj) == [h |-> Push(c.h, c.st.investments, obj), st |-> c.st]

\* the number of transactions, cards, loans and investments of a state
StateSize(h, st) ==
    Len(Elems(h, st.transactions)) + Len(Elems(h, st.creditCards))
    + Len(Elems(h, st.loans)) + Len(Elems(h, st.investments))

HasRoom(h, st) == StateSize(h, st) < MaxEntities

\* App.tsx toggleSimulation
toggleSimulation ==
    /\ frame = Null
    /\ IF isSimulating
       THEN Commit(heap, currentState, Null, Null)
       ELSE CommitSim(DeepCopy(heap, currentState))
    /\ lastCall' = Null
    /\ chat' = useEffectChatReset(chat, simState' # Null)

\* what the description field, the amount field (input type="number") and the
\* type buttons hold when "Add" is clicked
TransactionInputs ==
    { <<"", "50", "expense">>, <<"Coffee", "", "expense">>,
      <<"Coffee", "50", "expense">>, <<"Salary", "50", "income">>,
      <<"Refund", "-20", "expense">> }

parseFloat(text) == CASE text = "50" -> N(5000)
                      [] text = "-20" -> N(-2000)
                      [] OTHER -> NaN

\* App.tsx handleAddTransaction
handleAddTransaction(newTransDesc, newTransAmount, newTransType) ==
    /\ frame = Null
    /\ IF newTransDesc = "" \/ newTransAmount = ""
       THEN UNCHANGED vars
       ELSE /\ HasRoom(heap, currentState)
            /\ LET amount == parseFloat(newTransAmount)
                   txs == SpreadPrepend(heap, currentState.transactions,
                                        Transaction(amount, newTransType))
                   updatedState ==
                       [currentState EXCEPT
                           !.transactions = txs.ref,
                           !.cashBalance = IF newTransType = "income"
                                           THEN Add(@, amount) ELSE Sub(@, amount)]
               IN Commit(txs.h, updatedState, simState, Null)
            /\ lastCall' = Null
            /\ chat' = useEffectChatReset(chat, simState' # Null)

LoanTermMonths == 60

RECURSIVE PowOnePlusR(_, _)
\* Math.pow(1 + r, n) for r = rate/100/12, in units of 1/MonthlyRateDiv
PowOnePlusR(rate, n) ==
    IF n = 0 THEN MonthlyRateDiv
    ELSE LET p == PowOnePlusR(rate, n - 1) IN p + RoundDiv(p * rate, MonthlyRateDiv)

\* (amount * r * Math.pow(1 + r, n)) / (Math.pow(1 + r, n) - 1)
\* The denominator is 0 only for rate 0, where the numerator is 0 too: 0/0 is NaN.
AnnuityPayment(amount, rate, n) ==
    LET pow == PowOnePlusR(rate, n)
        numerator == Val(MulMonthlyRate(amount, rate)) * pow
        denominator == pow - MonthlyRateDiv
    IN IF IsNaN(amount) THEN NaN
       ELSE IF denominator = 0 THEN NaN
       ELSE N(RoundDiv(numerator, denominator))

\* values the number fields of the simulation panel are set to:
\* <<amount, rate>> of the loan form, and the other fields
LoanInputs == {<<1000000, 550>>, <<1000000, 0>>, <<-50000, 550>>}
CardCashbacks == {200, 100}
InvAmounts == {50000}
InvReturns == {800}

\* lines 30-42 of addLoan: the Loan object built from the two fields
SimulatedLoan(newLoanAmount, newLoanRate) ==
    Loan(N(newLoanAmount), N(newLoanAmount), newLoanRate,
         AnnuityPayment(N(newLoanAmount), newLoanRate, LoanTermMonths), LoanTermMonths)

\* addLoan without the cashBalance line: the loan is appended, the cash is kept
addLoan_NoCash(newLoanAmount, newLoanRate) ==
    /\ frame = Null
    /\ isSimulating
    /\ HasRoom(heap, simState)
    /\ LET loan == SimulatedLoan(newLoanAmount, newLoanRate)
           loans == SpreadAppend(heap, simState.loans, loan)
       IN Commit(loans.h, currentState, [simState EXCEPT !.loans = loans.ref], Null)
    /\ lastCall' = Null
    /\ chat' = useEffectChatReset(chat, simState' # Null)

\* SimulationControl.tsx addLoan
addLoan(newLoanAmount, newLoanRate) ==
    /\ frame = Null
    /\ isSimulating
    /\ HasRoom(heap, simState)
    /\ LET loan == SimulatedLoan(newLoanAmount, newLoanRate)
           loans == SpreadAppend(heap, simState.loans, loan)
       IN Commit(loans.h, currentState,
                 [simState EXCEPT !.loans = loans.ref,
                                  !.cashBalance = Add(@, N(newLoanAmount))],
                 Null)
    /\ lastCall' = Null
    /\ chat' = useEffectChatReset(chat, simState' # Null)

SimCardInterestRate == 1999

\* lines 53-59 of addCreditCard: the CreditCard object built from the field
SimulatedCard(newCardCashback) == CreditCard(newCardCashback, N(0), SimCardInterestRate)

\* SimulationControl.tsx addCreditCard
addCreditCard(newCardCashback) ==
    /\ frame = Null
    /\ isSimulating
    /\ HasRoom(heap, simState)
    /\ LET cards == SpreadAppend(heap, simState.creditCards, SimulatedCard(newCardCashback))
       IN Commit(cards.h, currentState, [simState EXCEPT !.creditCards = cards.ref], Null)
    /\ lastCall' = Null
    /\ chat' = useEffectChatReset(chat, simState' # Null)

\* SimulationControl.tsx addInvestment
addInvestment(invAmount, invReturn) ==
    /\ frame = Null
    /\ isSimulating
    /\ HasRoom(heap, simState)
    /\ LET invs == SpreadAppend(heap, simState.investments,
                                Investment(N(0), invReturn, N(invAmount)))
       IN Commit(invs.h, currentState, [simState EXCEPT !.investments = invs.ref], Null)
    /\ lastCall' = Null
    /\ chat' = useEffectChatReset(chat, simState' # Null)

\* SimulationControl.tsx resetSimulation
resetSimulation ==
    /\ frame = Null
    /\ isSimulating
    /\ CommitSim(DeepCopy(heap, currentState))
    /\ lastCall' = Null
    /\ chat' = useEffectChatReset(chat, simState' # Null)

\* the numbers estimatedReturn.match(/(\d+\.?\d*)/g) finds, in percent; <<>> for no match
ReturnMatches == {<<>>, <<8, 10>>}
DefaultReturnRate == 700
SuggestionContribution == 20000

\* "8-10%" -> 9.0
ParseReturn(nums) ==
    IF nums = <<>> THEN DefaultReturnRate
    ELSE IF Len(nums) = 2 THEN ((nums[1] + nums[2]) * RateScale) \div 2
    ELSE nums[1] * RateScale

\* App.tsx handleAddInvestmentFromSuggestion
handleAddInvestmentFromSuggestion(nums) ==
    /\ frame = Null
    /\ LET newInv == Investment(N(0), ParseReturn(nums), N(SuggestionContribution)) IN
       IF isSimulating
       THEN /\ HasRoom(heap, simState)
            /\ LET invs == SpreadAppend(heap, simState.investments, newInv) IN
               Commit(invs.h, currentState, [simState EXCEPT !.investments = invs.ref], Null)
       ELSE /\ HasRoom(heap, currentState)
            /\ CommitSim(PushInvestment(DeepCopy(heap, currentState), newInv))
    /\ lastCall' = Null
    /\ chat' = useEffectChatReset(chat, simState' # Null)

\* App.tsx "Apply Changes to Profile"
applyChanges ==
    /\ frame = Null
    /\ isSimulating
    /\ Commit(heap, simState, Null, Null)
    /\ lastCall' = Null
    /\ chat' = useEffectChatReset(chat, simState' # Null)

(***************************************************************************)
(* RiskAnalysis.tsx, CreditCoach.tsx and the derived figures of App.tsx    *)
(*                                                                         *)
(* A quotient a / b is kept exact, as the pair n / d with d > 0; the code  *)
(* divides only behind a test b > 0.                                       *)
(***************************************************************************)
Quot(a, b) == IF IsNaN(a) \/ IsNaN(b) THEN [k |-> "nan", n |-> 0, d |-> 1]
              ELSE [k |-> "num", n |-> Val(a), d |-> Val(b)]
Whole(x) == [k |-> "num", n |-> x, d |-> 1]
\* q * c
Times(q, c) == [q EXCEPT !.n = @ * c]
\* comparisons of a quotient with a whole number; false for NaN
QGe(q, c) == q.k = "num" /\ q.n >= c * q.d
QLe(q, c) == q.k = "num" /\ q.n <= c * q.d
QGt(q, c) == q.k = "num" /\ q.n > c * q.d
QEq(q, c) == q.k = "num" /\ q.n = c * q.d

RECURSIVE SumPayments(_, _)
\* loans.reduce((acc, l) => acc + l.monthlyPayment, 0)
SumPayments(loans, acc) ==
    IF loans = <<>> THEN acc
    ELSE SumPayments(Tail(loans), Add(acc, Head(loans).monthlyPayment))

getEmergencyStatus(ratio) ==
    IF QGe(ratio, 6) THEN "Excellent"
    ELSE IF QGe(ratio, 3) THEN "Good"
    ELSE IF QGe(ratio, 1) THEN "At Risk"
    ELSE "Critical"

getDtiStatus(ratio) ==
    IF QEq(ratio, 0) THEN "Debt Free"
    ELSE IF QLe(ratio, 20) THEN "Healthy"
    ELSE IF QLe(ratio, 36) THEN "Manageable"
    ELSE "High Burden"

\* (debtPayments / monthlyIncome) * 100 behind the test monthlyIncome > 0
DtiRatio(debtPayments, monthlyIncome) ==
    IF Gt0(monthlyIncome) THEN Times(Quot(debtPayments, monthlyIncome), 100) ELSE Whole(0)

\* the figures RiskAnalysis computes from its state (lines 11-40)
RiskAnalysis(h, st) ==
    LET monthlyExpenses == SumAmounts(Vals(h, st.transactions), "expense", N(0))
        debtPayments == SumPayments(Vals(h, st.loans), N(0))
        totalBurn == Add(monthlyExpenses, debtPayments)
        emergencyRatio == IF Gt0(totalBurn) THEN Quot(st.cashBalance, totalBurn) ELSE Whole(0)
        dtiRatio == DtiRatio(debtPayments, st.monthlyIncome)
    IN [fn |-> "RiskAnalysis",
        monthlyExpenses |-> monthlyExpenses,
        debtPayments |-> debtPayments,
        totalBurn |-> totalBurn,
        emergencyRatio |-> emergencyRatio,
        dtiRatio |-> dtiRatio,
        emergencyStatus |-> getEmergencyStatus(emergencyRatio),
        dtiStatus |-> getDtiStatus(dtiRatio)]

\* Math.round(q): the nearest integer, halves upwards
MathRound(q) == (2 * q.n + q.d) \div (2 * q.d)

\* Math.round(Math.max(300, Math.min(850, score))) for score = base - over,
\* where over is a quotient and base a whole number
ClampRound(base, over) ==
    LET score == [k |-> over.k, n |-> base * over.d - over.n, d |-> over.d]
    IN IF score.k = "nan" THEN NaN
       ELSE IF QGe(score, 850) THEN N(850)
       ELSE IF QLe(score, 300) THEN N(300)
       ELSE N(MathRound(score))

\* CreditCoach.tsx calculateMockScore (lines 20-35)
calculateMockScore(h, st) ==
    LET debtPayments == SumPayments(Vals(h, st.loans), N(0))
        dti == DtiRatio(debtPayments, st.monthlyIncome)
        over == IF QGt(dti, 30) THEN [dti EXCEPT !.n = @ - 30 * dti.d] ELSE Whole(0)
        accounts == Len(Elems(h, st.loans)) * 5 + Len(Elems(h, st.creditCards)) * 2
    IN [fn |-> "CreditCoach",
        debtPayments |-> debtPayments,
        dti |-> dti,
        score |-> ClampRound(750 - accounts, over)]

RECURSIVE SumPrincipal_Remaining(_, _)
\* SumPrincipal over remainingBalance instead of principal
SumPrincipal_Remaining(loans, acc) ==
    IF loans = <<>> THEN acc
    ELSE SumPrincipal_Remaining(Tail(loans), Add(acc, Head(loans).remainingBalance))

RECURSIVE SumPrincipal(_, _)
\* loans.reduce((a, l) => a + l.principal, 0)
SumPrincipal(loans, acc) ==
    IF loans = <<>> THEN acc
    ELSE SumPrincipal(Tail(loans), Add(acc, Head(loans).principal))

RECURSIVE SumMonthlyContribution(_, _, _)
\* investments.reduce((a, i) => a + i.monthlyContribution * times, 0)
SumMonthlyContribution(invs, times, acc) ==
    IF invs = <<>> THEN acc
    ELSE SumMonthlyContribution(Tail(invs), times,
            Add(acc, IF IsNaN(Head(invs).monthlyContribution) THEN NaN
                     ELSE N(Val(Head(invs).monthlyContribution) * times)))

\* simState || currentState
activeState == IF isSimulating THEN simState ELSE currentState

\* generateProjectionData(st, 12).pop()?.actualNetWorth || 0
ProjectedNetWorth(h, st) ==
    LET data == generateProjectionData(h, st, 12)
    IN IF data = <<>> THEN N(0) ELSE OrElse(data[Len(data)].actualNetWorth, N(0))

\* App.tsx lines 123-132: the derived figures of the active state
DerivedMetrics(h, st) ==
    LET totalExpenses == SumAmounts(Vals(h, st.transactions), "expense", N(0))
        totalMonthlyDebtPayments == SumPayments(Vals(h, st.loans), N(0))
        monthlyInvContribution == SumMonthlyContribution(Vals(h, st.investments), 1, N(0))
    IN [fn |-> "App",
        totalExpenses |-> totalExpenses,
        totalDebt |-> SumRemaining(Vals(h, st.loans), N(0)),
        totalMonthlyDebtPayments |-> totalMonthlyDebtPayments,
        totalInvestments |-> SumBalance(Vals(h, st.investments), N(0)),
        monthlyInvContribution |-> monthlyInvContribution,
        estimatedSavings |->
            Sub(Sub(Sub(st.monthlyIncome, totalExpenses), totalMonthlyDebtPayments),
                monthlyInvContribution)]

\* App.tsx lines 419-439: the three figures of the Simulation Impact panel
SimulationImpact(h, cur, sim) ==
    [fn |-> "SimulationImpact",
     projectedNetWorth |-> ProjectedNetWorth(h, sim),
     investmentsContribution |->
         SumMonthlyContribution(Vals(h, sim.investments), MonthsPerYear, N(0)),
     newLoanDebt |-> Sub(SumPrincipal(Vals(h, sim.loans), N(0)),
                         SumPrincipal(Vals(h, cur.loans), N(0)))]

\* A component is rendered: what it computes is what the user is shown.
renderRiskAnalysis ==
    /\ frame = Null
    /\ lastCall' = RiskAnalysis(heap, activeState)
    /\ UNCHANGED <<heap, currentState, simState, frame, chat>>

renderCreditCoach ==
    /\ frame = Null
    /\ lastCall' = calculateMockScore(heap, activeState)
    /\ UNCHANGED <<heap, currentState, simState, frame, chat>>

renderDerivedMetrics ==
    /\ frame = Null
    /\ lastCall' = DerivedMetrics(heap, activeState)
    /\ UNCHANGED <<heap, currentState, simState, frame, chat>>

renderSimulationImpact ==
    /\ frame = Null
    /\ isSimulating
    /\ lastCall' = SimulationImpact(heap, currentState, simState)
    /\ UNCHANGED <<heap, currentState, simState, frame, chat>>

(***************************************************************************)
(* Specifications                                                          *)
(***************************************************************************)
ChartMonths == 12

Init ==
    /\ heap = INITIAL_STATE.h
    /\ currentState = INITIAL_STATE.st
    /\ simState = Null
    /\ frame = Null
    /\ lastCall = Null
    /\ chat = useEffectChatReset(ChatInitialState, simState # Null)

Next ==
    \/ toggleSimulation
    \/ \E in \in TransactionInputs : handleAddTransaction(in[1], in[2], in[3])
    \/ \E in \in LoanInputs : addLoan(in[1], in[2])
    \/ \E c \in CardCashbacks : addCreditCard(c)
    \/ \E a \in InvAmounts, r \in InvReturns : addInvestment(a, r)
    \/ resetSimulation
    \/ \E nums \in ReturnMatches : handleAddInvestmentFromSuggestion(nums)
    \/ applyChanges

Spec == Init /\ [][Next]_vars

(***************************************************************************)
(* The projection on its own: generateProjectionData called, any number of *)
(* times, on a state drawn from a bounded set, with a horizon drawn from   *)
(* -1..MaxHorizon.                                                         *)
(***************************************************************************)
BoundedSeq(S, n) == UNION {[1..k -> S] : k \in 0..n}

StudentLoan == Loan(N(2500000), N(1840000), 450, N(26000), 120)
\* the same loan two payments before it is paid off
NearlyPaidLoan == Loan(N(2500000), N(30000), 450, N(26000), 120)
Retirement401k == Investment(N(1250000), 650, N(20000))

LoanPool == {StudentLoan, NearlyPaidLoan, SimulatedLoan(1000000, 0)}
InvestmentPool == {Retirement401k}
TransactionChoices == {<<>>, <<Transaction(N(310000), "income"), Transaction(N(14520), "expense")>>}
CardChoices == {<<>>, <<CreditCard(150, N(9500), 1824)>>}

InitProj ==
    /\ \E txs \in TransactionChoices, cards \in CardChoices,
          loans \in BoundedSeq(LoanPool, MaxLoans),
          invs \in BoundedSeq(InvestmentPool, MaxInvestments) :
          LET ns == NewState(EmptyHeap, N(1540000), N(620000), txs, cards, loans, invs) IN
          /\ heap = ns.h
          /\ currentState = ns.st
    /\ simState = Null
    /\ frame = Null
    /\ lastCall = Null
    /\ chat = useEffectChatReset(ChatInitialState, simState # Null)

NextProj ==
    \/ \E m \in (0 - 1)..MaxHorizon : ProjectStart(m)
    \/ ProjectMonth
    \/ ProjectExit
    \/ ProjectReturn

ProjSpec == InitProj /\ [][NextProj]_vars

(***************************************************************************)
(* Amortization: generateProjectionData run for the whole term of one loan *)
(* whose payment is the annuity payment of its principal, rate and term.   *)
(***************************************************************************)
\* a loan at rate 0 paying principal / termMonths a month
ZeroRateLoan == Loan(N(1200000), N(1200000), 0, N(20000), LoanTermMonths)

AmortPool == {SimulatedLoan(1000000, 550), SimulatedLoan(1000000, 600),
              SimulatedLoan(120000, 450), ZeroRateLoan}

InitAmort ==
    /\ \E loan \in AmortPool :
          LET ns == NewState(EmptyHeap, N(1540000), N(620000), <<>>, <<>>, <<loan>>, <<>>) IN
          /\ heap = ns.h
          /\ currentState = ns.st
    /\ simState = Null
    /\ frame = Null
    /\ lastCall = Null
    /\ chat = useEffectChatReset(ChatInitialState, simState # Null)

NextAmort ==
    \/ ProjectStart(LoanTermMonths)
    \/ ProjectMonth
    \/ ProjectReturn

AmortSpec == InitAmort /\ [][NextAmort]_vars

(***************************************************************************)
(* The figures shown for a state: RiskAnalysis, CreditCoach and the        *)
(* dashboard rendered on a baseline state drawn from a bounded set, alone  *)
(* or with a simulated state that is its deep copy plus one loan.          *)
(***************************************************************************)
\* a loan fully paid off
PaidOffLoan == Loan(N(2500000), N(0), 450, N(26000), 120)
\* a loan whose payment is 36% of the monthly income of 6200
HeavyLoan == Loan(N(2000000), N(2000000), 450, N(223200), 12)

\* the same loan once it is paid off
PaidOffHeavyLoan == Loan(N(2000000), N(0), 450, N(223200), 12)

RenderLoanChoices == {<<>>, <<StudentLoan>>, <<PaidOffLoan>>, <<StudentLoan, PaidOffLoan>>,
                      <<HeavyLoan>>, <<HeavyLoan, StudentLoan>>, <<PaidOffHeavyLoan>>}
RenderInvestmentChoices == {<<>>, <<Retirement401k>>}
\* 435.60 is three times, 435.59 just under three times the expenses of 145.20
RenderCashChoices == {1540000, 43560, 43559}
\* no simulation; a simulation with nothing added; one with a loan added
SimulatedChoices == {<<"off">>, <<"on">>, <<"on", StudentLoan>>,
                     <<"on", SimulatedLoan(1000000, 550)>>}

InitRender ==
    /\ \E txs \in TransactionChoices, cards \in CardChoices,
          loans \in RenderLoanChoices, invs \in RenderInvestmentChoices,
          cash \in RenderCashChoices, simulated \in SimulatedChoices :
          LET base == NewState(EmptyHeap, N(cash), N(620000), txs, cards, loans, invs)
              copy == NewState(base.h, N(cash), N(620000), txs, cards,
                               loans \o Tail(simulated), invs)
          IN IF Head(simulated) = "off"
             THEN heap = base.h /\ currentState = base.st /\ simState = Null
             ELSE heap = copy.h /\ currentState = base.st /\ simState = copy.st
    /\ frame = Null
    /\ lastCall = Null
    /\ chat = useEffectChatReset(ChatInitialState, simState # Null)

NextRender ==
    \/ renderRiskAnalysis
    \/ renderCreditCoach
    \/ renderDerivedMetrics
    \/ renderSimulationImpact

RenderSpec == InitRender /\ [][NextRender]_vars

(***************************************************************************)
(* The chat: questions sent, replies arriving, and the simulation switched  *)
(* on, off and applied while they do.                                      *)
(***************************************************************************)
NextChat ==
    \/ \E text \in InputTexts : setInputText(text)
    \/ onClickSend
    \/ onKeyDownEnter
    \/ \E k \in 1..MaxMessages, outcome \in Outcomes : sendMessageSettles(k, outcome)
    \/ applyChanges
    \/ toggleSimulation

ChatSpec == Init /\ [][NextChat]_vars

(***************************************************************************)
(* Properties                                                              *)
(***************************************************************************)
InCall == frame # Null
Returning == frame # Null /\ frame.pc = "ret"
IsZero(a) == a.k = "num" /\ a.v = 0
Last(seq) == seq[Len(seq)]

\* C1: a call with horizon h >= 0 returns exactly h+1 records, labelled
\* M0..Mh in order; for h = 0 the only record is the initial snapshot and no
\* monthly flow has been applied to the cash or to the copies.
C1_Length ==
    /\ (Returning /\ frame.months >= 0) =>
          /\ Len(frame.data) = frame.months + 1
          /\ \A k \in 1..Len(frame.data) : frame.data[k].month = MonthLabel(k - 1)
          /\ frame.months = 0 =>
                /\ frame.currentCash = currentState.cashBalance
                /\ Vals(heap, frame.activeLoans) = Vals(heap, currentState.loans)
                /\ Vals(heap, frame.activeInvestments) = Vals(heap, currentState.investments)
    /\ (lastCall # Null /\ lastCall.months >= 0) =>
          Len(lastCall.data) = lastCall.months + 1

C1_Witness ==
    /\ Returning
    /\ frame.months = 2
    /\ Len(frame.data) = 3
    /\ lastCall # Null
    /\ lastCall.months = 0
    /\ Len(lastCall.data) = 1

\* the figures of a state or of the copies, as the claim words them
NetWorthOf(cash, invs, loans) == Sub(Add(cash, SumBalance(invs, N(0))), SumRemaining(loans, N(0)))

\* C2: each record holds the cash, the investment total and
\* cash + investments - remaining loan balances as they are before that
\* month's flows are applied, and the record of month 0 holds the figures of
\* the input snapshot.
C2_RecordBeforeFlows ==
    [][(InCall /\ frame' # Null /\ Len(frame'.data) = Len(frame.data) + 1) =>
          /\ Last(frame'.data).actualSavings = frame.currentCash
          /\ Last(frame'.data).investmentValue =
                SumBalance(Vals(heap, frame.activeInvestments), N(0))
          /\ Last(frame'.data).actualNetWorth =
                NetWorthOf(frame.currentCash, Vals(heap, frame.activeInvestments),
                           Vals(heap, frame.activeLoans))
          /\ frame'.data[1].actualSavings = currentState.cashBalance
          /\ frame'.data[1].investmentValue =
                SumBalance(Vals(heap, currentState.investments), N(0))
          /\ frame'.data[1].actualNetWorth =
                NetWorthOf(currentState.cashBalance, Vals(heap, currentState.investments),
                           Vals(heap, currentState.loans))]_vars

C2_Witness ==
    /\ InCall
    /\ Len(frame.data) = 3
    /\ frame.data[3].actualNetWorth # frame.data[1].actualNetWorth
    /\ IsNum(frame.data[3].actualNetWorth)
    /\ Len(Elems(heap, frame.activeLoans)) > 0
    /\ Len(Elems(heap, frame.activeInvestments)) > 0

\* C3: a call made again on the same unmodified state with the same horizon
\* returns the sequence the earlier call returned.
C3_SameResult ==
    (Returning /\ lastCall # Null /\ lastCall.months = frame.months) =>
        frame.data = lastCall.data

C3_Witness ==
    /\ Returning
    /\ lastCall # Null
    /\ lastCall.months = frame.months
    /\ frame.months = 2
    /\ Len(Elems(heap, currentState.loans)) > 0
    /\ frame.data[1] # frame.data[2]

\* C4: during and after a call the caller's state (cashBalance, every loan's
\* remainingBalance, every investment's balance, and the rest) is as it was
\* when the call began.
C4_ArgumentUnchanged ==
    /\ InCall => DeepValue(heap, currentState) = frame.entry
    /\ lastCall # Null => DeepValue(heap, currentState) = lastCall.entry

C4_Witness ==
    /\ lastCall # Null
    /\ lastCall.months = 2
    /\ Len(Elems(heap, currentState.loans)) > 0
    /\ Len(Elems(heap, currentState.investments)) > 0
    /\ lastCall.data[3].investmentValue # lastCall.data[1].investmentValue

RECURSIVE SumActivePayments(_, _)
\* the monthlyPayment of the loans whose remainingBalance is > 0
SumActivePayments(loans, acc) ==
    IF loans = <<>> THEN acc
    ELSE SumActivePayments(Tail(loans),
            IF Gt0(Head(loans).remainingBalance) THEN Add(acc, Head(loans).monthlyPayment)
            ELSE acc)

RECURSIVE SumContributions(_, _)
SumContributions(invs, acc) ==
    IF invs = <<>> THEN acc
    ELSE SumContributions(Tail(invs), Add(acc, Head(invs).monthlyContribution))

FlowsApplied == InCall /\ frame' # Null /\ frame'.i = frame.i + 1

\* C6: in a projection a loan whose remainingBalance is 0 keeps the balance 0
\* in the next month, and the month's cash is debited by the monthlyPayment of
\* the loans with a balance > 0 only.
C6_PaidOffStaysPaidOff ==
    [][FlowsApplied =>
          LET before == Vals(heap, frame.activeLoans)
              after == Vals(heap', frame'.activeLoans)
          IN /\ Len(after) = Len(before)
             /\ \A k \in 1..Len(before) :
                   IsZero(before[k].remainingBalance) => IsZero(after[k].remainingBalance)
             /\ frame'.currentCash =
                   Sub(Sub(Sub(Add(Add(frame.currentCash, frame.monthlyIncome),
                                   frame.estimatedMonthlyCashback),
                               frame.monthlyExpenses),
                           SumActivePayments(before, N(0))),
                       SumContributions(Vals(heap, frame.activeInvestments), N(0)))]_vars

\* a loan that had a balance on entry is at 0 and a further month has been applied
C6_Witness ==
    /\ InCall
    /\ frame.i = 3
    /\ IsNum(frame.currentCash)
    /\ \E k \in 1..Len(Elems(heap, frame.activeLoans)) :
          /\ IsZero(Vals(heap, frame.activeLoans)[k].remainingBalance)
          /\ Gt0(Vals(heap, currentState.loans)[k].remainingBalance)
          /\ Len(frame.data) = 3
          /\ frame.data[3].actualNetWorth.v =
                frame.data[3].actualSavings.v + frame.data[3].investmentValue.v

\* C10 (as claimed): a call with a negative horizon does not return a
\* sequence; every sequence returned has horizon+1 records.
C10_NegativeHorizonFails ==
    lastCall # Null => (lastCall.months >= 0 /\ Len(lastCall.data) = lastCall.months + 1)

LoanRefs(h) == {r \in DOMAIN h : h[r].t = "loan"}

ElemSet(h, a) == {Elems(h, a)[k] : k \in 1..Len(Elems(h, a))}

\* the two states hold different loans and investments arrays with no common element
NoSharing ==
    isSimulating =>
        /\ currentState.loans # simState.loans
        /\ currentState.investments # simState.investments
        /\ ElemSet(heap, currentState.loans) \cap ElemSet(heap, simState.loans) = {}
        /\ ElemSet(heap, currentState.investments) \cap ElemSet(heap, simState.investments) = {}

\* a step that leaves a simulated state different from the one before it
SimulatedChanged ==
    /\ simState' # Null
    /\ \/ simState = Null
       \/ DeepValue(heap', simState') # DeepValue(heap, simState)

\* C5: after every handler the baseline and the simulated state share no loans
\* or investments array and no loan or investment, and a step that changes
\* the simulated state leaves the projection of the baseline as it was.
C5_Isolation ==
    [][/\ NoSharing'
       /\ SimulatedChanged =>
             generateProjectionData(heap', currentState', ChartMonths) =
                generateProjectionData(heap, currentState, ChartMonths)]_vars

\* a loan and an investment were added to the simulated state only
C5_Witness ==
    /\ isSimulating
    /\ Len(Elems(heap, simState.loans)) > Len(Elems(heap, currentState.loans))
    /\ Len(Elems(heap, simState.investments)) > Len(Elems(heap, currentState.investments))
    /\ Len(Elems(heap, currentState.loans)) > 0

\* C7 (as claimed): every loan the application holds has
\* 0 <= remainingBalance <= principal.
C7_BalanceInRange ==
    \A r \in LoanRefs(heap) :
        /\ IsNum(heap[r].remainingBalance)
        /\ IsNum(heap[r].principal)
        /\ 0 <= heap[r].remainingBalance.v
        /\ heap[r].remainingBalance.v <= heap[r].principal.v

\* C8 (as claimed): the monthly payment of a loan created with annual rate 0
\* is a number, principal / termMonths to the cent.
C8_ZeroRatePayment ==
    \A r \in LoanRefs(heap) :
        (heap[r].interestRate = 0 /\ IsNum(heap[r].principal) /\ heap[r].principal.v > 0) =>
            /\ IsNum(heap[r].monthlyPayment)
            /\ heap[r].monthlyPayment.v = RoundDiv(heap[r].principal.v, heap[r].termMonths)

\* C9 (as claimed): no loan with principal <= 0, termMonths <= 0 or a negative
\* rate is ever constructed or held by a state.
C9_InvalidLoanRejected ==
    \A r \in LoanRefs(heap) :
        /\ Gt0(heap[r].principal)
        /\ heap[r].termMonths > 0
        /\ heap[r].interestRate >= 0

\* C11 (as claimed): every loan held with principal > 0, rate >= 0 and
\* termMonths > 0 has a monthly payment > 0, and when its rate is > 0 the
\* payments of the whole term add up to at least the principal.
C11_PaymentPositive ==
    \A r \in LoanRefs(heap) :
        (Gt0(heap[r].principal) /\ heap[r].interestRate >= 0 /\ heap[r].termMonths > 0) =>
            /\ Gt0(heap[r].monthlyPayment)
            /\ heap[r].interestRate > 0 =>
                  heap[r].monthlyPayment.v * heap[r].termMonths >= heap[r].principal.v

\* the loan copy the running call works on (states of AmortSpec hold one loan)
ActiveLoan == heap[Elems(heap, frame.activeLoans)[1]]

\* the payment is the annuity payment of the loan's principal, rate and term
\* (principal / termMonths at rate 0)
HasAnnuityPayment(loan) ==
    /\ IsNum(loan.principal) /\ loan.principal.v > 0 /\ loan.termMonths > 0
    /\ IF loan.interestRate = 0
       THEN loan.monthlyPayment = N(RoundDiv(loan.principal.v, loan.termMonths))
       ELSE loan.monthlyPayment =
                AnnuityPayment(loan.principal, loan.interestRate, loan.termMonths)

\* what is left of a paid-off loan counts as 0 up to the rounding of the
\* monthly figures to the cent: one ten-thousandth of the principal
PayoffTolerance(loan) == loan.principal.v \div 10000

\* C12: for a loan whose payment is the annuity payment, the balance is a
\* number >= 0 after every month's loan step, and after termMonths steps
\* from remainingBalance = principal it is 0 within the tolerance.
C12_PayoffWithinTerm ==
    (InCall /\ HasAnnuityPayment(ActiveLoan)) =>
        /\ IsNum(ActiveLoan.remainingBalance)
        /\ ActiveLoan.remainingBalance.v >= 0
        /\ frame.i = ActiveLoan.termMonths =>
              ActiveLoan.remainingBalance.v <= PayoffTolerance(ActiveLoan)

\* the whole term of a loan at a positive rate has been stepped through
C12_Witness ==
    /\ InCall
    /\ HasAnnuityPayment(ActiveLoan)
    /\ ActiveLoan.interestRate > 0
    /\ frame.i = ActiveLoan.termMonths
    /\ Len(frame.data) = ActiveLoan.termMonths
    /\ IsNum(ActiveLoan.remainingBalance)
    /\ ActiveLoan.remainingBalance.v <= PayoffTolerance(ActiveLoan)

\* what a component showed last
ShownBy(fn) == lastCall # Null /\ lastCall.fn = fn

\* debtService as the claims define it: the payments of the loans with
\* remainingBalance > 0
DebtService(h, st) == SumActivePayments(Vals(h, st.loans), N(0))

\* C13 (as claimed): the debt figure RiskAnalysis, CreditCoach and the
\* dashboard compute is the sum of monthlyPayment over the loans with
\* remainingBalance > 0; a paid-off loan adds nothing to it, to the monthly
\* burn or to the debt-to-income ratio.
C13_DebtServiceActiveOnly ==
    /\ ShownBy("RiskAnalysis") =>
          /\ lastCall.debtPayments = DebtService(heap, activeState)
          /\ lastCall.totalBurn = Add(lastCall.monthlyExpenses, DebtService(heap, activeState))
          /\ lastCall.dtiRatio =
                DtiRatio(DebtService(heap, activeState), activeState.monthlyIncome)
    /\ ShownBy("CreditCoach") =>
          /\ lastCall.debtPayments = DebtService(heap, activeState)
          /\ lastCall.dti = DtiRatio(DebtService(heap, activeState), activeState.monthlyIncome)
    /\ ShownBy("App") =>
          lastCall.totalMonthlyDebtPayments = DebtService(heap, activeState)

\* the sum of the income transactions, or the state's monthlyIncome when
\* that sum is 0
ExpectedIncome(h, st) ==
    LET sum == SumAmounts(Vals(h, st.transactions), "income", N(0))
    IN IF IsZero(sum) THEN st.monthlyIncome ELSE sum

\* C14: the income figure of a projection is the sum of the amounts of the
\* income transactions, and state.monthlyIncome exactly when that sum is 0;
\* every projected month adds that same figure to the cash.
C14_ProjectionIncome ==
    [][/\ frame' # Null => frame'.monthlyIncome = ExpectedIncome(heap', currentState')
       /\ FlowsApplied =>
             frame'.currentCash =
                Sub(Sub(Sub(Add(Add(frame.currentCash, ExpectedIncome(heap, currentState)),
                                frame.estimatedMonthlyCashback),
                            frame.monthlyExpenses),
                        SumActivePayments(Vals(heap, frame.activeLoans), N(0))),
                    SumContributions(Vals(heap, frame.activeInvestments), N(0)))]_vars

\* two months projected on a state with no income transaction: the fallback
\* figure was added twice
C14_Witness ==
    /\ InCall
    /\ frame.i = 2
    /\ Len(Elems(heap, currentState.transactions)) = 0
    /\ Len(Elems(heap, currentState.loans)) = 0
    /\ Len(Elems(heap, currentState.investments)) = 0
    /\ frame.monthlyIncome = currentState.monthlyIncome
    /\ frame.currentCash = Add(currentState.cashBalance, N(2 * currentState.monthlyIncome.v))

\* the highest cashbackRate of the cards, 0 when there is none
HighestRate(cards) ==
    IF cards = <<>> THEN 0
    ELSE CHOOSE x \in {cards[k].cashbackRate : k \in 1..Len(cards)} :
            \A k \in 1..Len(cards) : cards[k].cashbackRate <= x

\* the state with one more card, as addCreditCard appends it
WithCard(h, st, cashback) ==
    LET cards == SpreadAppend(h, st.creditCards, SimulatedCard(cashback))
    IN [h |-> cards.h, st |-> [st EXCEPT !.creditCards = cards.ref]]

\* the projection of st with one more card of the given rate
ProjectionWithCard(c, m) == generateProjectionData(c.h, c.st, m)

Returned == lastCall # Null /\ frame = Null

EmergencyAsClaimed(out, cash, expense, debt) ==
    LET burn == Add(expense, debt)
        ratio == IF IsZero(burn) THEN Whole(0) ELSE Quot(cash, burn)
    IN /\ out.emergencyRatio = ratio
       /\ out.emergencyStatus \in {"Excellent", "Good", "At Risk", "Critical"}
       /\ (out.emergencyStatus = "Excellent") <=> QGe(ratio, 6)
       /\ (out.emergencyStatus = "Good") <=> (QGe(ratio, 3) /\ ~QGe(ratio, 6))
       /\ (out.emergencyStatus = "At Risk") <=> (QGe(ratio, 1) /\ ~QGe(ratio, 3))
       /\ (out.emergencyStatus = "Critical") <=> ~QGe(ratio, 1)

\* C16 (as claimed): the emergency-fund ratio is cashBalance / (expense +
\* debtService), 0 when that burn is 0, and the band shown is the one band
\* the ratio is in: >= 6 Excellent, >= 3 Good, >= 1 At Risk, else Critical.
C16_EmergencyBands ==
    ShownBy("RiskAnalysis") =>
        EmergencyAsClaimed(lastCall, activeState.cashBalance, lastCall.monthlyExpenses,
                           DebtService(heap, activeState))

\* the debt-to-income ratio and its band are those the claim gives for a
\* state with this debt service and income
DtiAsClaimed(shown, status, debt, income) ==
    LET ratio == IF income.v <= 0 THEN Whole(0) ELSE Times(Quot(debt, income), 100)
    IN /\ shown = ratio
       /\ status \in {"Debt Free", "Healthy", "Manageable", "High Burden"}
       /\ (status = "Debt Free") <=> QEq(ratio, 0)
       /\ (status = "Healthy") <=> (QGt(ratio, 0) /\ QLe(ratio, 20))
       /\ (status = "Manageable") <=> (QGt(ratio, 20) /\ QLe(ratio, 36))
       /\ (status = "High Burden") <=> QGt(ratio, 36)

\* C17 (as claimed): the debt-to-income ratio is debtService / monthlyIncome
\* * 100, 0 when monthlyIncome <= 0, and the band shown is: 0 Debt Free,
\* (0, 20] Healthy, (20, 36] Manageable, above 36 High Burden.
C17_DtiBands ==
    ShownBy("RiskAnalysis") =>
        DtiAsClaimed(lastCall.dtiRatio, lastCall.dtiStatus,
                     DebtService(heap, activeState), activeState.monthlyIncome)

\* the score is clamp(750 - max(0, dti - 30) - 5 * loans - 2 * cards, 300, 850)
\* rounded, for dti the debt-to-income ratio of this debt service and income
ScoreAsClaimed(score, debt, income, loanCount, cardCount) ==
    LET dti == IF income.v <= 0 THEN Whole(0) ELSE Times(Quot(debt, income), 100)
        over == IF QGt(dti, 30) THEN [dti EXCEPT !.n = @ - 30 * dti.d] ELSE Whole(0)
    IN /\ IsNum(score)
       /\ score.v >= 300 /\ score.v <= 850
       /\ score = ClampRound(750 - 5 * loanCount - 2 * cardCount, over)

\* C18 (as claimed): the mock credit score of a state is clamp(750 - max(0,
\* dti - 30) - 5 * loanCount - 2 * cardCount, 300, 850) rounded, an integer in
\* [300, 850], where dti is the debt-to-income ratio of the state.
C18_MockScore ==
    ShownBy("CreditCoach") =>
        ScoreAsClaimed(lastCall.score, DebtService(heap, activeState),
                       activeState.monthlyIncome,
                       Len(Elems(heap, activeState.loans)),
                       Len(Elems(heap, activeState.creditCards)))

\* the net worth of the last record of the 12-month projection of st
NetWorthAtHorizon(h, st) == Last(generateProjectionData(h, st, ChartMonths)).actualNetWorth

\* C19 (as claimed): the net-worth figure of the scenario comparison is the
\* last record's net worth of the simulated projection minus that of the
\* baseline projection over the same horizon, 0 when the two states are equal.
C19_NetWorthDelta ==
    ShownBy("SimulationImpact") =>
        /\ lastCall.projectedNetWorth =
              Sub(NetWorthAtHorizon(heap, simState), NetWorthAtHorizon(heap, currentState))
        /\ DeepValue(heap, simState) = DeepValue(heap, currentState) =>
              IsZero(lastCall.projectedNetWorth)

RECURSIVE FaceValue(_)
\* the principals of the loans, added up
FaceValue(loans) ==
    IF loans = <<>> THEN 0 ELSE Head(loans).principal.v + FaceValue(Tail(loans))

\* the loans the simulated state holds after those it took over from the baseline
AddedLoans ==
    SubSeq(Vals(heap, simState.loans), Len(Elems(heap, currentState.loans)) + 1,
           Len(Elems(heap, simState.loans)))

\* C20: the new debt shown is the sum of the principals of the simulated
\* state minus that of the baseline: the full face value of each loan added
\* in the simulation, whatever its remainingBalance, and 0 when none was added.
C20_NewLoanDebt ==
    ShownBy("SimulationImpact") =>
        /\ lastCall.newLoanDebt =
              N(FaceValue(Vals(heap, simState.loans)) - FaceValue(Vals(heap, currentState.loans)))
        /\ lastCall.newLoanDebt = N(FaceValue(AddedLoans))
        /\ AddedLoans = <<>> => IsZero(lastCall.newLoanDebt)

\* a loan with 18,400 left of a principal of 25,000 was added to a baseline
\* that holds loans: the new debt shown is 25,000
C20_Witness ==
    /\ ShownBy("SimulationImpact")
    /\ Len(Elems(heap, currentState.loans)) > 0
    /\ AddedLoans = <<StudentLoan>>
    /\ lastCall.newLoanDebt = N(2500000)

TransactionRefs(h) == {r \in DOMAIN h : h[r].t = "tx"}

\* C21 (as claimed): every transaction a state holds has an amount that is a
\* number > 0, whatever was typed into the add-transaction form.
C21_PositiveAmounts ==
    \A r \in TransactionRefs(heap) : IsNum(heap[r].amount) /\ heap[r].amount.v > 0

\* C22 (as claimed): right after a reset the simulated state is equal in
\* value to the baseline (cash, income, transactions, cards, loans,
\* investments: whatever was added to the simulation is gone) and shares no
\* object with it.
C22_ResetIsFreshCopy ==
    [][resetSimulation =>
          /\ simState' # Null
          /\ DeepValue(heap', simState') = DeepValue(heap', currentState')
          /\ NoSharing'
          /\ currentState'.transactions # simState'.transactions
          /\ currentState'.creditCards # simState'.creditCards]_vars

\* a 1-month projection of the state with cash 15400, income 6200, the loan
\* (18400 left, 4.5%, 260 a month), the investment (12500, 6.5%, 200 a
\* month), no transaction and no card is running
EndToEndScenario ==
    /\ InCall
    /\ frame.months = 1
    /\ DeepValue(heap, currentState) =
          [cashBalance |-> N(1540000), monthlyIncome |-> N(620000),
           transactions |-> <<>>, creditCards |-> <<>>,
           loans |-> <<StudentLoan>>, investments |-> <<Retirement401k>>]

\* C23: in that projection the month-0 net worth is 9500 and, after the one
\* month, the cash is 21140, the loan balance 18400 - (260 - 18400 * 0.045 /
\* 12) = 18209.00 and the investment (12500 + 200) * (1 + 0.065 / 12) =
\* 12768.79 to the cent.
C23_EndToEnd ==
    EndToEndScenario =>
        /\ Len(frame.data) >= 1 => frame.data[1].actualNetWorth = N(950000)
        /\ frame.i = 1 =>
              /\ frame.currentCash = N(2114000)
              /\ Vals(heap, frame.activeLoans)[1].remainingBalance = N(1820900)
              /\ Vals(heap, frame.activeInvestments)[1].balance = N(1276879)
        /\ Len(frame.data) = 2 => frame.data[2].actualSavings = N(2114000)

C23_Witness ==
    /\ EndToEndScenario
    /\ frame.pc = "ret"
    /\ Len(frame.data) = 2
    /\ frame.data[1].actualNetWorth = N(950000)
    /\ frame.data[2].actualSavings = N(2114000)

\* max(0, balance - (monthlyPayment - balance * rate/100/12)) for the loan
\* as it was before the month
BalanceAfterPayment(loan) ==
    LET interest == MulMonthlyRate(loan.remainingBalance, loan.interestRate)
        left == Sub(loan.remainingBalance, Sub(loan.monthlyPayment, interest))
    IN IF Lt0(left) THEN N(0) ELSE left

\* C24: in each projected month every loan with remainingBalance > 0 gets the
\* balance max(0, balance - (monthlyPayment - interest)), the interest taken
\* on the balance before the month, and the cash that income, cashback and
\* expenses left is debited by exactly its monthlyPayment; the other loans
\* are left as they are.
C24_LoanStep ==
    [][FlowsApplied =>
          LET before == Vals(heap, frame.activeLoans)
              after == Vals(heap', frame'.activeLoans)
              afterExpenses == Sub(Add(Add(frame.currentCash, frame.monthlyIncome),
                                       frame.estimatedMonthlyCashback),
                                   frame.monthlyExpenses)
          IN /\ Len(after) = Len(before)
             /\ \A k \in 1..Len(before) :
                   after[k] = IF Gt0(before[k].remainingBalance)
                              THEN [before[k] EXCEPT
                                       !.remainingBalance = BalanceAfterPayment(before[k])]
                              ELSE before[k]
             /\ Add(frame'.currentCash,
                    SumContributions(Vals(heap, frame.activeInvestments), N(0)))
                   = Sub(afterExpenses, SumActivePayments(before, N(0)))]_vars

\* two months of payments were taken from a loan that still has a balance
C24_Witness ==
    /\ InCall
    /\ frame.i = 2
    /\ IsNum(frame.currentCash)
    /\ Len(Elems(heap, frame.activeLoans)) > 0
    /\ Gt0(Vals(heap, frame.activeLoans)[1].remainingBalance)
    /\ Vals(heap, frame.activeLoans)[1].remainingBalance.v
          < Vals(heap, currentState.loans)[1].remainingBalance.v
    /\ Vals(heap, frame.activeLoans)[1].interestRate > 0

\* (balance + monthlyContribution) * (1 + annualReturnRate/100/12)
BalanceAfterGrowth(inv) ==
    LET contributed == Add(inv.balance, inv.monthlyContribution)
    IN Add(contributed, MulMonthlyRate(contributed, inv.annualReturnRate))

\* C25: in each projected month every investment gets the balance (balance +
\* monthlyContribution) * (1 + annualReturnRate/100/12), the growth taken on
\* the balance after the contribution, the cash is debited by its
\* monthlyContribution, and a balance with balance, contribution and rate
\* >= 0 does not decrease.
C25_InvestmentStep ==
    [][FlowsApplied =>
          LET before == Vals(heap, frame.activeInvestments)
              after == Vals(heap', frame'.activeInvestments)
              afterLoans == Sub(Sub(Add(Add(frame.currentCash, frame.monthlyIncome),
                                        frame.estimatedMonthlyCashback),
                                    frame.monthlyExpenses),
                                SumActivePayments(Vals(heap, frame.activeLoans), N(0)))
          IN /\ Len(after) = Len(before)
             /\ \A k \in 1..Len(before) :
                   /\ after[k] = [before[k] EXCEPT !.balance = BalanceAfterGrowth(before[k])]
                   /\ (/\ IsNum(before[k].balance) /\ before[k].balance.v >= 0
                       /\ IsNum(before[k].monthlyContribution)
                       /\ before[k].monthlyContribution.v >= 0
                       /\ before[k].annualReturnRate >= 0)
                         => after[k].balance.v >= before[k].balance.v
             /\ frame'.currentCash = Sub(afterLoans, SumContributions(before, N(0)))]_vars

\* two months of contributions and growth: the balance is above the
\* contributions paid in
C25_Witness ==
    /\ InCall
    /\ frame.i = 2
    /\ Len(Elems(heap, frame.activeInvestments)) > 0
    /\ Vals(heap, frame.activeInvestments)[1].balance.v >
          Vals(heap, currentState.investments)[1].balance.v
          + 2 * Vals(heap, currentState.investments)[1].monthlyContribution.v
    /\ Vals(heap, currentState.investments)[1].monthlyContribution.v > 0

RECURSIVE SumInterest(_, _)
\* the month's interest of the loans with remainingBalance > 0
SumInterest(loans, acc) ==
    IF loans = <<>> THEN acc
    ELSE SumInterest(Tail(loans),
            IF Gt0(Head(loans).remainingBalance)
            THEN Add(acc, MulMonthlyRate(Head(loans).remainingBalance, Head(loans).interestRate))
            ELSE acc)

RECURSIVE SumGrowth(_, _)
\* the month's growth of the investments, on the balance after the contribution
SumGrowth(invs, acc) ==
    IF invs = <<>> THEN acc
    ELSE SumGrowth(Tail(invs),
            Add(acc, MulMonthlyRate(Add(Head(invs).balance, Head(invs).monthlyContribution),
                                    Head(invs).annualReturnRate)))

\* the net worth of the cash and the copies of the running call
FrameNetWorth(h, fr) ==
    NetWorthOf(fr.currentCash, Vals(h, fr.activeInvestments), Vals(h, fr.activeLoans))

\* net worth + income + cashback - expense + investment growth
BeforeLoanCost(h, fr) ==
    Add(Sub(Add(Add(FrameNetWorth(h, fr), fr.monthlyIncome), fr.estimatedMonthlyCashback),
            fr.monthlyExpenses),
        SumGrowth(Vals(h, fr.activeInvestments), N(0)))

\* a month whose cash and loan payments are numbers
NumericMonth ==
    /\ IsNum(frame.currentCash)
    /\ \A k \in 1..Len(Vals(heap, frame.activeLoans)) :
          IsNum(Vals(heap, frame.activeLoans)[k].monthlyPayment)

\* C26 (as claimed): from one record to the next the net worth changes by
\* income + cashback - expense - (the month's loan interest) + (the month's
\* investment growth), also in the month a loan is paid off.  Stated for the
\* months whose cash and payments are numbers.

C26_NetWorthChange ==
    [][(FlowsApplied /\ NumericMonth) =>
          /\ Last(frame'.data).actualNetWorth = FrameNetWorth(heap, frame)
          /\ FrameNetWorth(heap', frame') =
                Sub(BeforeLoanCost(heap, frame),
                    SumInterest(Vals(heap, frame.activeLoans), N(0)))]_vars

\* what a month costs the net worth for one loan: its payment less the amount
\* its balance fell by
LoanCost(before, after) ==
    Sub(before.monthlyPayment, Sub(before.remainingBalance, after.remainingBalance))

RECURSIVE SumLoanCost(_, _, _)
SumLoanCost(before, after, acc) ==
    IF before = <<>> THEN acc
    ELSE SumLoanCost(Tail(before), Tail(after),
            IF Gt0(Head(before).remainingBalance)
            THEN Add(acc, LoanCost(Head(before), Head(after))) ELSE acc)

\* the part of the payment beyond the balance and its interest
Overpayment(loan) ==
    LET interest == MulMonthlyRate(loan.remainingBalance, loan.interestRate)
        left == Sub(loan.remainingBalance, Sub(loan.monthlyPayment, interest))
    IN IF Lt0(left) THEN N(0 - left.v) ELSE N(0)

\* C26 (amended): from one record to the next the net worth changes by
\* income + cashback - expense + (investment growth) - (for each loan with a
\* balance, its payment less the fall of its balance); for a loan with a
\* numeric payment that is the month's interest plus, in the month it is paid
\* off, the part of the full payment beyond balance and interest.
C26_NetWorthChangeAmended ==
    [][FlowsApplied =>
          LET before == Vals(heap, frame.activeLoans)
              after == Vals(heap', frame'.activeLoans)
          IN /\ Last(frame'.data).actualNetWorth = FrameNetWorth(heap, frame)
             /\ FrameNetWorth(heap', frame') =
                   Sub(BeforeLoanCost(heap, frame), SumLoanCost(before, after, N(0)))
             /\ \A k \in 1..Len(before) :
                   (Gt0(before[k].remainingBalance) /\ IsNum(before[k].monthlyPayment)) =>
                      LoanCost(before[k], after[k]) =
                         Add(MulMonthlyRate(before[k].remainingBalance, before[k].interestRate),
                             Overpayment(before[k]))]_vars

\* a loan was paid off by a payment larger than what was left of it
C26_Witness ==
    /\ InCall
    /\ frame.i >= 2
    /\ IsNum(frame.currentCash)
    /\ Len(frame.data) >= 2
    /\ \E k \in 1..Len(Elems(heap, frame.activeLoans)) :
          /\ IsZero(Vals(heap, frame.activeLoans)[k].remainingBalance)
          /\ Gt0(Vals(heap, currentState.loans)[k].remainingBalance)
          /\ Vals(heap, currentState.loans)[k].remainingBalance.v
                < 2 * Vals(heap, currentState.loans)[k].monthlyPayment.v

\* how many times the transaction tx occurs in the sequence txs
Occurrences(txs, tx) == Cardinality({k \in 1..Len(txs) : txs[k] = tx})

\* C27 (as claimed): a transaction in currentState.transactions is still in
\* currentState.transactions after any step of the app (start or exit of a
\* simulation, simulated additions, reset, Apply Changes), also when it was
\* added while a simulation was active.
C27_TransactionKept ==
    [][\A tx \in {Vals(heap, currentState.transactions)[k] :
                    k \in 1..Len(Vals(heap, currentState.transactions))} :
          Occurrences(Vals(heap', currentState'.transactions), tx)
             >= Occurrences(Vals(heap, currentState.transactions), tx)]_vars

\* cash + investment balances - remaining loan balances of the state st
StateNetWorth(h, st) ==
    NetWorthOf(st.cashBalance, Vals(h, st.investments), Vals(h, st.loans))

\* C28: adding a simulated loan leaves the net worth of the simulated state
\* unchanged: the cash rises by the loan amount, the remaining debt rises by
\* the same amount, and the transactions, credit cards, investments, monthly
\* income and existing loans of the simulated state stay as they are.
C28_AddLoanKeepsNetWorth ==
    [][(\E in \in LoanInputs : addLoan(in[1], in[2])) =>
          LET before == Vals(heap, simState.loans)
              after == Vals(heap', simState'.loans)
              amount == Last(after).principal
          IN /\ StateNetWorth(heap', simState') = StateNetWorth(heap, simState)
             /\ simState'.cashBalance = Add(simState.cashBalance, amount)
             /\ SumRemaining(after, N(0)) = Add(SumRemaining(before, N(0)), amount)
             /\ Len(after) = Len(before) + 1
             /\ SubSeq(after, 1, Len(before)) = before
             /\ Vals(heap', simState'.transactions) = Vals(heap, simState.transactions)
             /\ Vals(heap', simState'.creditCards) = Vals(heap, simState.creditCards)
             /\ Vals(heap', simState'.investments) = Vals(heap, simState.investments)
             /\ simState'.monthlyIncome = simState.monthlyIncome]_vars

\* a simulated loan was added: the simulated state has one loan more than the
\* baseline, more cash, and the same net worth
C28_Witness ==
    /\ simState # Null
    /\ frame = Null
    /\ Len(Elems(heap, simState.loans)) = Len(Elems(heap, currentState.loans)) + 1
    /\ Gt(simState.cashBalance, currentState.cashBalance)
    /\ Last(Vals(heap, simState.loans)).termMonths = LoanTermMonths
    /\ StateNetWorth(heap, simState) = StateNetWorth(heap, currentState)

\* the calls awaited that were made on the current session
AwaitedByCurrentSession == {k \in 1..Len(chat.pending) : chat.pending[k].toCurrentSession}

\* C29 (as claimed): at most one user message awaits a reply of the current
\* session, and no user message directly follows another user message in the
\* message list.
C29_OneQuestionAtATime ==
    /\ Cardinality(AwaitedByCurrentSession) <= 1
    /\ \A k \in 1..(Len(chat.messages) - 1) :
          ~(chat.messages[k].role = "user" /\ chat.messages[k + 1].role = "user")

\* C30 (as claimed): when a call made on a previous session settles, no
\* message is appended to the message list of the new session.
C30_StaleReplyDropped ==
    [][\A k \in 1..MaxMessages, outcome \in Outcomes :
          (sendMessageSettles(k, outcome) /\ ~chat.pending[k].toCurrentSession) =>
              chat'.messages = chat.messages]_vars

\* the first half of C30: a change of the financial context leaves a message
\* list holding only the greeting
ChatResetToGreeting ==
    [][(toggleSimulation \/ applyChanges) =>
          chat'.messages = <<Greeting(simState' # Null)>>]_vars

====
